---- MODULE Spec2Model ----
(***************************************************************************)
(* A model of the training callbacks, the pairwise-distance losses and the *)
(* AttentionRegression train/eval steps of attention-all-microbes.         *)
(*                                                                         *)
(* Real-valued tensors are modelled over the integers.  The losses of      *)
(* losses.py and mean_absolute_error keep their final division as a        *)
(* fraction <<numerator, denominator>>; the losses and metrics of          *)
(* train_step are fixed-point numbers of hundredths.                       *)
(***************************************************************************)
EXTENDS Integers, Sequences, FiniteSets, TLC

VARIABLES
    project_encoder,  \* ProjectEncoder: [cur_step, calls, logged]
    accuracy,         \* Accuracy: [steps_per_checkpoint, cur_step, total_mae, calls, saved]
    mae_scatter,      \* MAE_Scatter: [arg_steps, cur_step, total_mae, calls, saved]
    embeddings,       \* y_pred of the loss: batch_size rows of coordinates
    y_true,           \* the batch_size x batch_size matrix of true distances
    distances,        \* what _pairwise_distances(embeddings, squared=True) returned
    loss_value,       \* what pairwise_loss(batch_size)(y_true, embeddings) returned
    dataset,          \* the dataset given to AttentionRegression.mean_absolute_error
    mae_result,       \* what mean_absolute_error(dataset) returned
    batch,            \* the batch of this epoch's last train_step and the outputs on it
    step_out,         \* what this epoch's last train_step computed and returned
    trackers,         \* loss_tracker, confidence_tracker, mae_metric: [total, count]
    fit               \* the training loop: [phase, epoch, step, log, updated]

callbackVars == <<project_encoder, accuracy, mae_scatter>>
lossVars == <<embeddings, y_true, distances, loss_value>>
evalVars == <<dataset, mae_result>>
trainVars == <<batch, step_out, trackers, fit>>
otherVars == <<lossVars, evalVars, trainVars>>
vars == <<callbackVars, lossVars, evalVars, trainVars>>

\* the value of a result that has not been computed yet
None == <<>>

\* ------------------------------------------------------------------------
\* Bounds of the model
\* ------------------------------------------------------------------------
MaxCalls == 12     \* on_epoch_end calls followed per callback
MaxK == 3          \* largest steps_per_checkpoint passed to a constructor
MaxSamples == 4    \* most samples in the table of a ProjectEncoder
MaxProjBatch == 2  \* largest batch_size of a ProjectEncoder
MaxNumSamples == 3 \* largest num_samples of a ProjectEncoder
MaxEvalBatch == 2  \* largest batch of a mean_absolute_error dataset
MaxEvalBatches == 2 \* most batches of a mean_absolute_error dataset
MaxBatch == 3      \* largest batch_size of a loss call
MaxDist == 2       \* true sample positions lie in 0..MaxDist
MaxSeq == 3        \* longest token sequence of a train_step batch
MaxSteps == 2      \* train steps followed per epoch
MaxEpochs == 2     \* epochs followed
BatchSizes == {1, 2}   \* batch sizes of a train_step
Targets == {0, 1}      \* normalised regression targets and outputs
LogitShifts == {0, 1}  \* which logits the positions of a batch get
Dims == {1, 2}     \* embedding dimensions tried
Coords == {0, 1}   \* values an embedding coordinate takes

\* ------------------------------------------------------------------------
\* amplicon_gpt/callbacks.py
\* ------------------------------------------------------------------------

\* ProjectEncoder.__init__: cur_step = 0; ids are the sample ids of the
\* loaded table, in table order.  calls, logged and last_log are history:
\* the number of on_epoch_end calls so far, the calls on which
\* _log_epoch_data ran, and what its last run wrote.
ProjectEncoder_init(ids, batch_size, num_samples) ==
    [cur_step |-> 0, ids |-> ids, batch_size |-> batch_size,
     num_samples |-> num_samples, calls |-> 0, logged |-> {},
     last_log |-> None]

\* the injective sequences of length n over S: what np.random.shuffle
\* followed by [:n] can leave
Draws(S, n) ==
    {q \in [1..n -> S] : \A i, j \in 1..n : i # j => q[i] # q[j]}

Minimum(a, b) == IF a <= b THEN a ELSE b

\* int(table.shape[1] / batch_size) * batch_size
total_samples(ids, batch_size) == (Len(ids) \div batch_size) * batch_size

\* tf.gather(pred, sample_indices): row k is row sample_indices[k] of pred
\* (indices count from 0)
gather(pred, sample_indices) ==
    [k \in 1..Len(sample_indices) |-> pred[sample_indices[k] + 1]]

take_leading_ids(ids, sample_indices) == SubSeq(ids, 1, Len(sample_indices))

\* table.ids(axis='sample')[sample_indices]
take_ids(ids, sample_indices) ==
    [k \in 1..Len(sample_indices) |-> ids[sample_indices[k] + 1]]

\* DistanceMatrix.filter(ids): the matrix over the wanted ids, in the order
\* they are asked for
filter(matrix_ids, wanted) ==
    SelectSeq(wanted, LAMBDA id : \E k \in 1..Len(matrix_ids) : matrix_ids[k] = id)

\* ProjectEncoder._log_epoch_data.  model.predict(data) gives one row per
\* sample; a row is modelled by the index of the sample it was predicted for.
log_epoch_data(pe, sample_indices) ==
    LET pred == [r \in 1..total_samples(pe.ids, pe.batch_size) |-> r - 1]
        gathered == gather(pred, sample_indices)
        pred_ids == take_ids(pe.ids, sample_indices)
        true_ids == filter(pe.ids, take_ids(pe.ids, sample_indices))
    IN [sample_indices |-> sample_indices, rows |-> gathered,
        pred_ids |-> pred_ids, true_ids |-> true_ids]

PE_due_offbyone(cur_step) == (cur_step + 1) % 5 = 0

\* the test of ProjectEncoder.on_epoch_end
PE_due(cur_step) == cur_step % 5 = 0

ProjectEncoder_on_epoch_end ==
    /\ project_encoder.calls < MaxCalls
    /\ LET pe == project_encoder
           n == pe.calls + 1
           due == PE_due(pe.cur_step)
           reset == IF due THEN 0 ELSE pe.cur_step
           total == total_samples(pe.ids, pe.batch_size)
       IN \E sample_indices \in
               IF due THEN Draws(0..(total - 1), Minimum(pe.num_samples, total))
                      ELSE {<<>>} :
            project_encoder' =
              [pe EXCEPT
                  !.cur_step = reset + 1,
                  !.calls = n,
                  !.logged = IF due THEN @ \cup {n} ELSE @,
                  !.last_log = IF due THEN log_epoch_data(pe, sample_indices)
                                      ELSE @]
    /\ UNCHANGED <<accuracy, mae_scatter, otherVars>>

\* Accuracy.__init__(steps_per_checkpoint = k)
Accuracy_init(k) ==
    [steps_per_checkpoint |-> k, cur_step |-> 0, total_mae |-> 0,
     calls |-> 0, saved |-> {}]

Acc_due_fixed5(cur_step, steps_per_checkpoint) == cur_step % 5 = 0

\* the test of Accuracy.on_epoch_end
Acc_due(cur_step, steps_per_checkpoint) == cur_step % steps_per_checkpoint = 0

\* Accuracy.on_epoch_end: when due, total_mae += 1, the model is saved and
\* auc-{total_mae}.png and roc-{total_mae}.png are written; saved records the
\* call on which that happened.
Accuracy_on_epoch_end ==
    /\ accuracy.calls < MaxCalls
    /\ LET n == accuracy.calls + 1
           due == Acc_due(accuracy.cur_step, accuracy.steps_per_checkpoint)
           reset == IF due THEN 0 ELSE accuracy.cur_step
       IN accuracy' =
              [accuracy EXCEPT
                  !.cur_step = reset + 1,
                  !.total_mae = IF due THEN @ + 1 ELSE @,
                  !.calls = n,
                  !.saved = IF due THEN @ \cup {n} ELSE @]
    /\ UNCHANGED <<project_encoder, mae_scatter, otherVars>>

\* MAE_Scatter.__init__(steps_per_checkpoint = k): the argument is accepted
\* and not stored; arg_steps remembers what the caller passed.
MAE_Scatter_init(k) ==
    [arg_steps |-> k, cur_step |-> 0, total_mae |-> 0,
     calls |-> 0, saved |-> {}]

\* the test of MAE_Scatter.on_epoch_end
MAE_due(cur_step) == cur_step % 5 = 0

MAE_Scatter_on_epoch_end ==
    /\ mae_scatter.calls < MaxCalls
    /\ LET n == mae_scatter.calls + 1
           due == MAE_due(mae_scatter.cur_step)
           reset == IF due THEN 0 ELSE mae_scatter.cur_step
       IN mae_scatter' =
              [mae_scatter EXCEPT
                  !.cur_step = reset + 1,
                  !.total_mae = IF due THEN @ + 1 ELSE @,
                  !.calls = n,
                  !.saved = IF due THEN @ \cup {n} ELSE @]
    /\ UNCHANGED <<project_encoder, accuracy, otherVars>>

\* ------------------------------------------------------------------------
\* aam/losses.py
\* ------------------------------------------------------------------------
Abs(x) == IF x < 0 THEN -x ELSE x
Maximum(a, b) == IF a >= b THEN a ELSE b

RECURSIVE SumSeq(_)
SumSeq(s) == IF s = <<>> THEN 0 ELSE Head(s) + SumSeq(Tail(s))

\* tf.reduce_sum of a matrix
ReduceSum(m) == SumSeq([i \in 1..Len(m) |-> SumSeq(m[i])])

\* math.comb
RECURSIVE comb(_, _)
comb(n, k) ==
    IF k = 0 THEN 1
    ELSE IF k > n THEN 0
    ELSE comb(n - 1, k - 1) + comb(n - 1, k)

\* tf.matmul(embeddings, tf.transpose(embeddings))
dot_product(e) ==
    [i \in 1..Len(e) |->
        [j \in 1..Len(e) |->
            SumSeq([k \in 1..Len(e[i]) |-> e[i][k] * e[j][k]])]]

\* tf.linalg.diag_part
diag_part(m) == [i \in 1..Len(m) |-> m[i][i]]

pairwise_distances_no_factor(e) ==
    LET dp == dot_product(e)
        square_norm == diag_part(dp)
    IN [i \in 1..Len(e) |->
           [j \in 1..Len(e) |->
               Maximum(square_norm[i] - dp[i][j] + square_norm[j], 0)]]

\* _pairwise_distances(embeddings, squared=True): the squared = False branch
\* (the square root) is not taken on this call.
pairwise_distances(e) ==
    LET dp == dot_product(e)
        square_norm == diag_part(dp)
    IN [i \in 1..Len(e) |->
           [j \in 1..Len(e) |->
               Maximum(square_norm[i] - 2 * dp[i][j] + square_norm[j], 0)]]

band_part_all(m) == m

\* tf.linalg.band_part(m, 0, -1): the upper triangle, diagonal included
band_part_upper(m) ==
    [i \in 1..Len(m) |-> [j \in 1..Len(m[i]) |-> IF i <= j THEN m[i][j] ELSE 0]]

\* pairwise_loss(batch_size)(y_true, y_pred); the quotient is kept as
\* <<numerator, denominator>>.
pairwise_loss(batch_size, yt, y_pred) ==
    LET yt_sq == [i \in 1..Len(yt) |-> [j \in 1..Len(yt[i]) |-> yt[i][j] * yt[i][j]]]
        y_pred_dist == pairwise_distances(y_pred)
        difference ==
            [i \in 1..Len(yt) |->
                [j \in 1..Len(yt[i]) |->
                    (yt_sq[i][j] - y_pred_dist[i][j]) * (yt_sq[i][j] - y_pred_dist[i][j])]]
    IN <<ReduceSum(band_part_upper(difference)), comb(batch_size, 2)>>

\* ------------------------------------------------------------------------
\* sepsis/model.py
\* ------------------------------------------------------------------------

\* the 3-class logits a position can get
LogitRows == << <<0, 0, 0>>, <<1, 0, 0>>, <<0, 1, 0>>, <<0, 0, 1>>, <<1, 1, 0>> >>

\* log(sum(exp(logits))) in hundredths for logits in {0, 1}, by the number of
\* ones: log 3, log(e + 2), log(2e + 1), log(3e)
LogSumExp == <<110, 155, 186, 210>>

\* the softmax cross-entropy of one position, in hundredths:
\* log(sum(exp(logits))) - logits[label]
softmax_cross_entropy(logits, label) ==
    LogSumExp[SumSeq(logits) + 1] - 100 * logits[label + 1]

loss_loadings_no_ignore(labels, logits) ==
    [p \in 1..Len(labels) |-> softmax_cross_entropy(logits[p], labels[p])]

\* self.loss_loadings: SparseCategoricalCrossentropy(ignore_class=0,
\* from_logits=True, reduction="none") along one sample
loss_loadings(labels, logits) ==
    [p \in 1..Len(labels) |->
        IF labels[p] = 0 THEN 0
        ELSE softmax_cross_entropy(logits[p], labels[p])]

\* self.loss_reg: MeanSquaredError over the batch, in hundredths
loss_reg(y, regression) ==
    (100 * SumSeq([i \in 1..Len(y) |->
                      (y[i] - regression[i]) * (y[i] - regression[i])]))
        \div Len(y)

\* x[begin:] of Python and TensorFlow: a negative begin counts from the end,
\* and -0 is 0
slice_from(x, begin) ==
    LET b == IF begin < 0 THEN Maximum(Len(x) + begin, 0)
                          ELSE Minimum(begin, Len(x))
    IN SubSeq(x, b + 1, Len(x))

\* x[:end]
slice_to(x, end) == SubSeq(x, 1, Minimum(end, Len(x)))

\* train_step: labels = (tokens > 0) + token_mask, per position
labels_of(tokens, token_mask) ==
    [i \in 1..Len(tokens) |->
        [p \in 1..Len(tokens[i]) |->
            (IF tokens[i][p] > 0 THEN 1 ELSE 0) + token_mask[i][p]]]

\* train_step: max_added, the largest per-sample count of labels equal to 1
max_added_of(labels) ==
    LET count(i) == Cardinality({p \in 1..Len(labels[i]) : labels[i][p] = 1})
    IN CHOOSE m \in {count(i) : i \in 1..Len(labels)} :
           \A i \in 1..Len(labels) : count(i) <= m

\* train_step.select_equal_class applied to one tensor of a sample
select_equal_class(x, max_added) ==
    LET added == slice_from(x, -max_added)
        true == slice_to(x, max_added)
    IN true \o added

metrics_without_mae == <<"loss_tracker", "confidence_tracker">>

\* AttentionRegression.metrics
metrics == <<"loss_tracker", "confidence_tracker", "mae_metric">>

\* AttentionRegression.__init__: the three trackers, empty
trackers_init ==
    [t \in {"loss_tracker", "confidence_tracker", "mae_metric"} |->
        [total |-> 0, count |-> 0]]

\* Mean.update_state(values): total += sum(values), count += len(values)
update_state(tracker, values) ==
    [total |-> tracker.total + SumSeq(values),
     count |-> tracker.count + Len(values)]

\* Mean.result(): total / count in hundredths, 0 while nothing was added
result(tracker) ==
    IF tracker.count = 0 THEN 0 ELSE tracker.total \div tracker.count

\* MAE(mean, std).update_state(y, regression): the absolute errors in the
\* units of the target, in hundredths
mae_values(y, regression, mean, std) ==
    [i \in 1..Len(y) |->
        100 * Abs((y[i] * std + mean) - (regression[i] * std + mean))]

\* the mean and std the model is built with
model_norm == [mean |-> 1, std |-> 2]

\* train_step on a batch with targets y, given the model's outputs on it
train_step_values(y, outputs) ==
    LET loss0 == loss_reg(y, outputs.regression)
        labels == labels_of(outputs.tokens, outputs.token_mask)
        max_added == max_added_of(labels)
        n == Len(labels)
        sel_embeddings ==
            [i \in 1..n |-> select_equal_class(outputs.embeddings[i], max_added)]
        sel_labels == [i \in 1..n |-> select_equal_class(labels[i], max_added)]
        sel_positions ==
            [i \in 1..n |->
                select_equal_class([p \in 1..Len(labels[i]) |-> p], max_added)]
        conf_loss ==
            [i \in 1..n |-> SumSeq(loss_loadings(sel_labels[i], sel_embeddings[i]))]
        loss == [i \in 1..n |-> loss0 + conf_loss[i]]
    IN [labels |-> labels, max_added |-> max_added,
        sel_labels |-> sel_labels, sel_embeddings |-> sel_embeddings,
        sel_positions |-> sel_positions,
        conf_loss |-> conf_loss, loss |-> loss]

\* What a position of the model's outputs can be, as <<token, mask>>:
\* padding, an added token, a true token (the mask is set only on real tokens)
PositionKinds == {<<0, 0>>, <<1, 0>>, <<1, 1>>}

\* The outputs the model gives on a batch: tokens, token_mask, 3-class
\* logits per position and one regression value per sample.
outputs_of(kinds, regression, h) ==
    [tokens |-> [i \in 1..Len(kinds) |-> [p \in 1..Len(kinds[i]) |-> kinds[i][p][1]]],
     token_mask |-> [i \in 1..Len(kinds) |-> [p \in 1..Len(kinds[i]) |-> kinds[i][p][2]]],
     regression |-> regression,
     embeddings |-> [i \in 1..Len(kinds) |-> [p \in 1..Len(kinds[i]) |->
                        LogitRows[((i + p + h) % Len(LogitRows)) + 1]]]]

\* the three update_state calls of train_step
update_trackers(t, y, outputs, v) ==
    [t EXCEPT
        !["loss_tracker"] = update_state(@, v.loss),
        !["mae_metric"] =
            update_state(@, mae_values(y, outputs.regression,
                                       model_norm.mean, model_norm.std)),
        !["confidence_tracker"] = update_state(@, v.conf_loss)]

\* AttentionRegression.train_step, with the position of the training loop.
\* log is history: what each batch of the epoch so far added.
\* The batch has up to two samples of l in lens positions; the regression
\* outputs are drawn from outs and the logits are placed by a shift in shifts.
train_step(lens, outs, shifts) ==
    /\ fit.phase = "epoch"
    /\ \E b \in BatchSizes : \E l \in lens :
         \E y \in [1..b -> Targets] : \E regression \in [1..b -> outs] :
         \E kinds \in [1..b -> [1..l -> PositionKinds]] : \E h \in shifts :
         \E outputs \in {outputs_of(kinds, regression, h)} :
         \E v \in {train_step_values(y, outputs)} :
         \E t \in {update_trackers(trackers, y, outputs, v)} :
           /\ batch' = [y |-> y, outputs |-> outputs]
           /\ trackers' = t
           /\ step_out' =
                [values |-> v,
                 logs |-> [loss |-> result(t["loss_tracker"]),
                           confidence |-> result(t["confidence_tracker"]),
                           mae |-> result(t["mae_metric"])]]
           /\ fit' = [fit EXCEPT
                !.step = @ + 1,
                !.updated = @ \cup {"loss_tracker", "mae_metric",
                                    "confidence_tracker"},
                !.log = Append(@,
                    [n |-> b,
                     loss |-> SumSeq(v.loss),
                     confidence |-> SumSeq(v.conf_loss),
                     mae |-> SumSeq(mae_values(y, outputs.regression,
                                       model_norm.mean, model_norm.std))])]
    /\ UNCHANGED <<callbackVars, lossVars, evalVars>>

\* What Keras does at the start of each epoch: reset_state() on every
\* metric the metrics property lists.  No train_step of the new epoch has
\* run yet, so batch and step_out are empty again.
epoch_begin ==
    /\ fit.phase = "idle"
    /\ fit.epoch < MaxEpochs
    /\ trackers' =
         [t \in DOMAIN trackers |->
             IF \E k \in 1..Len(metrics) : metrics[k] = t
             THEN [total |-> 0, count |-> 0]
             ELSE trackers[t]]
    /\ fit' = [fit EXCEPT !.phase = "epoch", !.epoch = @ + 1, !.step = 0,
                          !.log = <<>>]
    /\ batch' = None
    /\ step_out' = None
    /\ UNCHANGED <<callbackVars, lossVars, evalVars>>

\* the end of an epoch of at least one batch
epoch_end ==
    /\ fit.phase = "epoch"
    /\ fit.step >= 1
    /\ fit' = [fit EXCEPT !.phase = "idle"]
    /\ UNCHANGED <<callbackVars, lossVars, evalVars, batch, step_out, trackers>>

\* the loop of mean_absolute_error over the batches of the dataset:
\* <<mae, counts>> after the last batch
RECURSIVE mae_loop(_, _, _, _)
mae_loop(batches, mean, std, acc) ==
    IF batches = <<>> THEN acc
    ELSE LET b == Head(batches)
             y_pred == [i \in 1..Len(b.regression) |-> b.regression[i] * std + mean]
             yt == [i \in 1..Len(b.y) |-> b.y[i] * std + mean]
             err == SumSeq([i \in 1..Len(yt) |-> Abs(yt[i] - y_pred[i])])
         IN mae_loop(Tail(batches), mean, std,
                     <<acc[1] + err, acc[2] + Len(y_pred)>>)

\* AttentionRegression.mean_absolute_error(dataset); the quotient is kept as
\* <<numerator, denominator>>
mean_absolute_error(batches, mean, std) ==
    LET after == mae_loop(batches, mean, std, <<0, 0>>)
        mae == after[1] + ReduceSum(<<<<after[1]>>>>)
        counts == after[2]
    IN <<mae, counts>>

MeanAbsoluteError ==
    /\ mae_result = None
    /\ mae_result' = mean_absolute_error(dataset.batches, dataset.mean, dataset.std)
    /\ UNCHANGED <<callbackVars, lossVars, trainVars, dataset>>

\* ------------------------------------------------------------------------
\* Specifications
\* ------------------------------------------------------------------------
\* the sample ids a table can hold, in table order
AllIds == <<"s3", "s1", "s4", "s2", "s6", "s5">>

IdleCallbacks ==
    /\ project_encoder = ProjectEncoder_init(SubSeq(AllIds, 1, 2), 1, 2)
    /\ accuracy = Accuracy_init(5)
    /\ mae_scatter = MAE_Scatter_init(5)

IdleLoss ==
    /\ embeddings = <<>>
    /\ y_true = <<>>
    /\ distances = None
    /\ loss_value = None

IdleEval ==
    /\ dataset = [batches |-> <<>>, mean |-> 0, std |-> 1]
    /\ mae_result = None

\* a freshly built model, before fit
fit_init == [phase |-> "idle", epoch |-> 0, step |-> 0, log |-> <<>>, updated |-> {}]

IdleTrain ==
    /\ batch = None
    /\ step_out = None
    /\ trackers = trackers_init
    /\ fit = fit_init

\* the callbacks over the epochs of a training run
InitCallbacks ==
    /\ project_encoder = ProjectEncoder_init(SubSeq(AllIds, 1, 2), 1, 2)
    /\ \E k \in 1..MaxK : accuracy = Accuracy_init(k)
    /\ \E k \in 1..MaxK : mae_scatter = MAE_Scatter_init(k)
    /\ IdleLoss /\ IdleEval /\ IdleTrain

NextCallbacks ==
    \/ ProjectEncoder_on_epoch_end
    \/ Accuracy_on_epoch_end
    \/ MAE_Scatter_on_epoch_end

SpecCallbacks == InitCallbacks /\ [][NextCallbacks]_vars

\* a ProjectEncoder over tables of several sizes; the table holds at least
\* one full batch, so that a run has samples to draw
InitProject ==
    /\ \E n \in 1..MaxSamples : \E batch_size \in 1..MaxProjBatch :
         \E num_samples \in 1..MaxNumSamples :
           /\ batch_size <= n
           /\ project_encoder =
                ProjectEncoder_init(SubSeq(AllIds, 1, n), batch_size, num_samples)
    /\ accuracy = Accuracy_init(5)
    /\ mae_scatter = MAE_Scatter_init(5)
    /\ IdleLoss /\ IdleEval /\ IdleTrain

NextProject == ProjectEncoder_on_epoch_end

SpecProject == InitProject /\ [][NextProject]_vars

\* A true distance matrix: the distances between samples placed at t[1..n]
\* on a line (symmetric, zero diagonal).
LineDistances(t) ==
    [i \in 1..Len(t) |-> [j \in 1..Len(t) |-> Abs(t[i] - t[j])]]

\* the loss functions on batches of embeddings
InitLoss ==
    /\ IdleCallbacks /\ IdleEval /\ IdleTrain
    /\ \E b \in 2..MaxBatch : \E d \in Dims :
         /\ embeddings \in [1..b -> [1..d -> Coords]]
         /\ \E t \in [1..b -> 0..MaxDist] : y_true = LineDistances(t)
    /\ distances = None
    /\ loss_value = None

PairwiseDistances ==
    /\ distances = None
    /\ distances' = pairwise_distances(embeddings)
    /\ UNCHANGED <<callbackVars, evalVars, trainVars, embeddings, y_true, loss_value>>

PairwiseLoss ==
    /\ loss_value = None
    /\ loss_value' = pairwise_loss(Len(embeddings), y_true, embeddings)
    /\ UNCHANGED <<callbackVars, evalVars, trainVars, embeddings, y_true, distances>>

NextLoss == PairwiseDistances \/ PairwiseLoss

SpecLoss == InitLoss /\ [][NextLoss]_vars

\* the first train_step of a model, on batches of up to MaxSeq positions
InitTrain ==
    /\ IdleCallbacks /\ IdleLoss /\ IdleEval
    /\ batch = None
    /\ step_out = None
    /\ trackers = trackers_init
    /\ fit = fit_init

FirstTrainStep == fit.step = 0 /\ train_step(1..MaxSeq, Targets, LogitShifts)

NextTrain == epoch_begin \/ FirstTrainStep

SpecTrain == InitTrain /\ [][NextTrain]_vars

\* fit: epochs of up to MaxSteps batches of one position each
FitTrainStep == fit.step < MaxSteps /\ train_step({1}, {1}, {0})

NextFit == epoch_begin \/ FitTrainStep \/ epoch_end

SpecFit == InitTrain /\ [][NextFit]_vars

\* the datasets given to mean_absolute_error: batches of two or more
\* samples (tf.squeeze leaves a batch of one without its batch axis)
EvalBatches ==
    UNION {{[y |-> y, regression |-> r] :
               y \in [1..n -> Targets], r \in [1..n -> Targets]} :
           n \in 2..MaxEvalBatch}

InitEval ==
    /\ IdleCallbacks /\ IdleLoss /\ IdleTrain
    /\ \E k \in 1..MaxEvalBatches : \E mean \in {0, 3} : \E std \in {1, 2} :
         \E batches \in [1..k -> EvalBatches] :
           dataset = [batches |-> batches, mean |-> mean, std |-> std]
    /\ mae_result = None

NextEval == MeanAbsoluteError

SpecEval == InitEval /\ [][NextEval]_vars

\* ------------------------------------------------------------------------
\* Properties
\* ------------------------------------------------------------------------
\* C1: over the on_epoch_end calls made so far on a fresh ProjectEncoder,
\* _log_epoch_data has run on exactly the calls 1, 6, 11, ...
C1_ProjectsEveryFifth ==
    project_encoder.logged =
        {n \in 1..project_encoder.calls : n % 5 = 1}

C1_Witness ==
    /\ project_encoder.calls >= 11
    /\ 11 \in project_encoder.logged
    /\ 10 \notin project_encoder.logged

\* the set of elements of a sequence
Range(q) == {q[k] : k \in 1..Len(q)}

\* C5: what a run of _log_epoch_data writes is built over one set of sample
\* ids: the predicted and the true matrix both carry the table's ids at the
\* drawn sample_indices, and gathered row k is the prediction of the sample
\* whose id labels it.
C5_SameSamples ==
    project_encoder.last_log # None =>
        LET log == project_encoder.last_log
            ids == project_encoder.ids
            drawn == {ids[log.sample_indices[k] + 1] :
                          k \in 1..Len(log.sample_indices)}
        IN /\ Range(log.pred_ids) = drawn
           /\ Range(log.true_ids) = drawn
           /\ Len(log.pred_ids) = Len(log.rows)
           /\ \A k \in 1..Len(log.rows) :
                log.pred_ids[k] = ids[log.rows[k] + 1]

C5_Witness ==
    /\ project_encoder.last_log # None
    /\ Len(project_encoder.ids) = 4
    /\ project_encoder.batch_size = 2
    /\ project_encoder.last_log.sample_indices = <<2, 0, 3>>
    /\ project_encoder.last_log.pred_ids = <<"s4", "s3", "s2">>

\* C9: an Accuracy callback built with steps_per_checkpoint = k has saved
\* (model and PRC/ROC figures) on exactly the calls 1, 1+k, 1+2k, ..., and
\* its figure counter equals the number of saves.
C9_AccuracyEveryKth ==
    /\ accuracy.saved =
           {n \in 1..accuracy.calls :
               (n - 1) % accuracy.steps_per_checkpoint = 0}
    /\ accuracy.total_mae = Cardinality(accuracy.saved)

C9_Witness ==
    /\ accuracy.steps_per_checkpoint = 3
    /\ accuracy.calls >= 7
    /\ {1, 4, 7} \subseteq accuracy.saved
    /\ 6 \notin accuracy.saved

\* C10: a MAE_Scatter callback built with steps_per_checkpoint = k has saved
\* on exactly the calls 1, 1+k, 1+2k, ... for the k passed to the constructor.
C10_MAEScatterEveryKth ==
    mae_scatter.saved =
        {n \in 1..mae_scatter.calls : (n - 1) % mae_scatter.arg_steps = 0}


\* the squared Euclidean distance between two rows, term by term
SqEuclid(a, b) == SumSeq([k \in 1..Len(a) |-> (a[k] - b[k]) * (a[k] - b[k])])

\* the unordered pairs i < j of a batch
Pairs(n) == {p \in (1..n) \X (1..n) : p[1] < p[2]}

RECURSIVE SumOver(_, _)
SumOver(S, f) ==
    IF S = {} THEN 0
    ELSE LET x == CHOOSE x \in S : TRUE IN f[x] + SumOver(S \ {x}, f)

PairError(p) ==
    LET d == y_true[p[1]][p[2]] * y_true[p[1]][p[2]]
             - SqEuclid(embeddings[p[1]], embeddings[p[2]])
    IN d * d

\* C4: pairwise_loss equals the sum over the pairs i < j of
\* (y_true[i][j]^2 - ||y_pred[i] - y_pred[j]||^2)^2 divided by C(batch_size, 2);
\* it is never negative, and 0 when every predicted distance equals the true one.
C4_PairwiseLossValue ==
    loss_value # None =>
        LET n == Len(embeddings)
            expected == SumOver(Pairs(n), [p \in Pairs(n) |-> PairError(p)])
        IN /\ loss_value[2] = (n * (n - 1)) \div 2
           /\ loss_value[1] = expected
           /\ loss_value[1] >= 0
           /\ (\A p \in Pairs(n) :
                  y_true[p[1]][p[2]] * y_true[p[1]][p[2]]
                      = SqEuclid(embeddings[p[1]], embeddings[p[2]]))
                  => loss_value[1] = 0

C4_Witness ==
    /\ loss_value # None
    /\ Len(embeddings) = 3
    /\ loss_value[1] > 0
    /\ \E p \in Pairs(3) : y_true[p[1]][p[2]] > 0 /\ PairError(p) = 0

\* C6: _pairwise_distances(embeddings, squared=True) is the matrix of squared
\* Euclidean distances: symmetric, nowhere negative, zero on the diagonal.
C6_SquaredDistanceMatrix ==
    distances # None =>
        LET n == Len(embeddings) IN
        /\ Len(distances) = n
        /\ \A i \in 1..n :
             /\ Len(distances[i]) = n
             /\ distances[i][i] = 0
             /\ \A j \in 1..n :
                  /\ distances[i][j] = SqEuclid(embeddings[i], embeddings[j])
                  /\ distances[i][j] = distances[j][i]
                  /\ distances[i][j] >= 0

C6_Witness ==
    /\ distances # None
    /\ Len(embeddings) = 3
    /\ distances[1][2] = 2
    /\ distances[2][3] = 1
    /\ distances[1][1] = 0

\* the label of position p of sample i of the last batch
LabelAt(i, p) ==
    (IF batch.outputs.tokens[i][p] > 0 THEN 1 ELSE 0)
        + batch.outputs.token_mask[i][p]

\* C2: in train_step, for every sample of the batch and every max_added from
\* 0 up to the sequence length, select_equal_class returns exactly max_added
\* leading positions followed by exactly max_added trailing positions.
C2_BalancedSelection ==
    batch # None =>
        LET v == step_out.values
            m == v.max_added
        IN \A i \in 1..Len(batch.y) :
             LET l == Len(v.labels[i]) IN
             /\ m \in 0..l
             /\ Len(v.sel_positions[i]) = 2 * m
             /\ Len(v.sel_labels[i]) = 2 * m
             /\ Len(v.sel_embeddings[i]) = 2 * m
             /\ SubSeq(v.sel_positions[i], 1, m) = [p \in 1..m |-> p]
             /\ SubSeq(v.sel_positions[i], m + 1, 2 * m)
                    = [p \in 1..m |-> l - m + p]

\* C3: the loss train_step differentiates is, per sample, the batch's mean
\* squared regression error plus the sum over the sample's selected
\* positions of the cross-entropy between the position's label and its
\* logits, a selected position of label 0 adding nothing (a position
\* selected both as leading and as trailing counts twice).
C3_LossPerSample ==
    batch # None =>
        LET v == step_out.values
            n == Len(batch.y)
            mse == (100 * SumSeq([i \in 1..n |->
                       (batch.y[i] - batch.outputs.regression[i])
                         * (batch.y[i] - batch.outputs.regression[i])])) \div n
            ce(i, p) ==
                IF LabelAt(i, p) = 0 THEN 0
                ELSE softmax_cross_entropy(batch.outputs.embeddings[i][p],
                                           LabelAt(i, p))
        IN /\ Len(v.loss) = n
           /\ \A i \in 1..n :
                v.loss[i] =
                    mse + SumSeq([k \in 1..Len(v.sel_positions[i]) |->
                                     ce(i, v.sel_positions[i][k])])

C3_Witness ==
    /\ batch # None
    /\ Len(batch.y) = 2
    /\ batch.y[1] # batch.outputs.regression[1]
    /\ step_out.values.max_added = 1
    /\ Len(step_out.values.labels[1]) = 3
    /\ step_out.values.sel_labels[1] = <<2, 0>>
    /\ step_out.values.sel_labels[2] = <<1, 2>>
    /\ step_out.values.conf_loss[2] > step_out.values.conf_loss[1]
    /\ step_out.values.conf_loss[1] > 0

\* the sum of one field over the batches logged in this epoch
LogSum(field) == SumSeq([k \in 1..Len(fit.log) |-> fit.log[k][field]])

\* C7: every tracker train_step updates is listed by metrics, so within an
\* epoch each tracker holds exactly what the batches of that epoch added,
\* and the values train_step returns are the means over those batches.
C7_TrackersPerEpoch ==
    /\ fit.updated \subseteq Range(metrics)
    /\ fit.phase = "epoch" =>
         /\ \A t \in DOMAIN trackers : trackers[t].count = LogSum("n")
         /\ trackers["loss_tracker"].total = LogSum("loss")
         /\ trackers["confidence_tracker"].total = LogSum("confidence")
         /\ trackers["mae_metric"].total = LogSum("mae")
    /\ (fit.phase = "epoch" /\ fit.step >= 1) =>
         /\ step_out.logs.loss = LogSum("loss") \div LogSum("n")
         /\ step_out.logs.confidence = LogSum("confidence") \div LogSum("n")
         /\ step_out.logs.mae = LogSum("mae") \div LogSum("n")

C7_Witness ==
    /\ fit.phase = "epoch"
    /\ fit.epoch = 2
    /\ fit.step = 2
    /\ trackers["mae_metric"].total > 0
    /\ trackers["confidence_tracker"].total > 0
    /\ trackers["loss_tracker"].count = 3

\* C8: mean_absolute_error(dataset) is the sum over all samples of every
\* batch of |(y_true*std+mean) - (y_pred*std+mean)| divided by the number of
\* samples.
C8_MeanAbsoluteError ==
    mae_result # None =>
        LET bs == dataset.batches
            err(b) == SumSeq([i \in 1..Len(b.y) |->
                         Abs((b.y[i] * dataset.std + dataset.mean)
                             - (b.regression[i] * dataset.std + dataset.mean))])
            total == SumSeq([k \in 1..Len(bs) |-> err(bs[k])])
            samples == SumSeq([k \in 1..Len(bs) |-> Len(bs[k].y)])
        IN mae_result[1] * samples = total * mae_result[2]

====
